---- MODULE Spec2Model ----
(***************************************************************************)
(* vrpn_Mutex: distributed mutual exclusion between mutex instances that   *)
(* share a name and have called addPeer() for each other.                  *)
(*                                                                         *)
(* The class declaration (state enum, fields, documented contracts of the  *)
(* public operations) is src/vrpn_Mutex.h.  The bodies of the message      *)
(* handlers live in vrpn_Mutex.C, which is not part of the source tree at  *)
(* hand; they are modelled from the protocol description (sections 4.1,    *)
(* 4.2 and 4.5 of the specification).                                      *)
(***************************************************************************)
EXTENDS Integers, Sequences, FiniteSets, TLC

\* vrpn_Mutex.h:53 "It's been tested with 1-3 sites"
MaxSites == 3

\* Number of request() calls that start a request cycle, over all sites, when
\* the sites start out mutually registered.
MaxRequests == 3

\* The same, when the sites start out with empty registries.
MaxRequestsFresh == 2

\* Number of addPeer() calls executed, over all sites.
MaxAddPeers == 2

\* Number of request cycles, over all sites, when sites may be lost.
MaxRequestsLoss == 2

\* Number of instances that are destroyed.
MaxDestroys == 1

Peers == 1 .. MaxSites

\* enum state { OURS, REQUESTING, AVAILABLE, HELD_REMOTELY }
OURS == "OURS"
REQUESTING == "REQUESTING"
AVAILABLE == "AVAILABLE"
HELD_REMOTELY == "HELD_REMOTELY"
States == {OURS, REQUESTING, AVAILABLE, HELD_REMOTELY}

\* Address and port of the connection of each of the three sites.  Sites 1
\* and 2 share an address and differ by port; site 3 has the highest address
\* and the lowest port.
d_myIP == <<10, 10, 20>>
Port == <<2, 3, 1>>

\* The port that vrpn_Mutex (name, vrpn_Connection *) records instead of the
\* port of the connection it is given (vrpn_Mutex.h:32-34).
WrongPort == 0

\* The station name under which site q is reached: what addPeer() is given.
Station(q) == <<d_myIP[q], Port[q]>>

\* d_holderIP / d_holderPort when nobody is recorded as the remote holder.
NoHolder == <<0, 0>>

\* Total order over identities: numeric comparison of address, then port.
IdLess(a, b) == \/ a[1] < b[1]
                \/ (a[1] = b[1] /\ a[2] < b[2])

PeerOf(id) == CHOOSE q \in Peers : Station(q) = id

VARIABLES
  d_myPort,     \* [Peers -> port], the port each instance believes is its own
  d_state,      \* [Peers -> States]
  d_numPeersGrantingLock,  \* [Peers -> Nat]
  d_peerData,   \* [Peers -> Seq([IPaddress, port, grantedLock])]
  d_holder,     \* [Peers -> identity], <<d_holderIP, d_holderPort>>
  alive,        \* [Peers -> BOOLEAN], FALSE once the instance is destroyed
  chan,         \* chan[a][b]: messages sent by a to b, not yet handled by b
  nreq,         \* request cycles that may still be started
  heldAtDestroy,\* sites that were destroyed while holding the lock
  last          \* what the last operation did: callbacks fired, messages sent

vars == <<d_myPort, d_state, d_numPeersGrantingLock, d_peerData, d_holder, alive, chan,
          nreq, heldAtDestroy, last>>

\* <<d_myIP, d_myPort>>: the identity that site p puts in its Requests and
\* compares in the tiebreak.
Identity(p) == <<d_myIP[p], d_myPort[p]>>

\* ---------------------------------------------------------------------
\* Messages

Msg(t, id) == [type |-> t, ip |-> id[1], port |-> id[2]]

\* ---------------------------------------------------------------------
\* Peer registry

peerData(id) == [IPaddress |-> id[1], port |-> id[2], grantedLock |-> FALSE]

numPeers_OffByOne(p) == Len(d_peerData[p]) + 1

numPeers(p) == Len(d_peerData[p])

EntryId(e) == <<e.IPaddress, e.port>>

RegisteredPeers(p) ==
  {PeerOf(EntryId(d_peerData[p][i])) : i \in 1 .. Len(d_peerData[p])}

ClearGrants_Keep(p) == d_peerData[p]

\* The registry entries of p with every grantedLock cleared.
ClearGrants(p) ==
  [i \in 1 .. Len(d_peerData[p]) |->
     [d_peerData[p][i] EXCEPT !.grantedLock = FALSE]]

\* The registry entries of p with the entry of identity id marked as granted.
MarkGranted(p, id) ==
  [i \in 1 .. Len(d_peerData[p]) |->
     IF EntryId(d_peerData[p][i]) = id
       THEN [d_peerData[p][i] EXCEPT !.grantedLock = TRUE]
       ELSE d_peerData[p][i]]

\* The registry entries of p without the entry of identity id.
RECURSIVE RemovePeer(_, _)
RemovePeer(entries, id) ==
  IF entries = <<>> THEN <<>>
  ELSE IF EntryId(Head(entries)) = id
    THEN RemovePeer(Tail(entries), id)
    ELSE <<Head(entries)>> \o RemovePeer(Tail(entries), id)

\* ---------------------------------------------------------------------
\* Accessors

isAvailable_NotOurs(p) == d_state[p] \in {AVAILABLE, HELD_REMOTELY}

isAvailable(p) == d_state[p] = AVAILABLE

isHeldLocally_OrPending(p) == d_state[p] \in {OURS, REQUESTING}

isHeldLocally_Never(p) == FALSE

isHeldLocally(p) == d_state[p] = OURS

isHeldRemotely(p) == d_state[p] = HELD_REMOTELY

\* ---------------------------------------------------------------------
\* Sending

\* One message from a to b.
SendTo_Twice(c, a, b, m) == [c EXCEPT ![a][b] = Append(Append(@, m), m)]

SendTo(c, a, b, m) == [c EXCEPT ![a][b] = Append(@, m)]

\* One message m on every d_peer[i] connection of p.
SendToPeers(c, p, m) ==
  [a \in Peers |-> [b \in Peers |->
     IF a = p /\ b \in RegisteredPeers(p) THEN Append(c[a][b], m)
     ELSE c[a][b]]]

\* What the step put on the wire, in registry order: <<destination, type>>.
SentToPeers(p, t) ==
  [i \in 1 .. Len(d_peerData[p]) |->
     <<PeerOf(EntryId(d_peerData[p][i])), t>>]

Did(op, p, from, fired, sent) ==
  [op |-> op, peer |-> p, from |-> from, fired |-> fired, sent |-> sent,
   err |-> FALSE]

\* ---------------------------------------------------------------------
\* Initial states

Construct ==
  /\ d_state = [p \in Peers |-> AVAILABLE]
  /\ d_numPeersGrantingLock = [p \in Peers |-> 0]
  /\ d_holder = [p \in Peers |-> NoHolder]
  /\ alive = [p \in Peers |-> TRUE]
  /\ chan = [a \in Peers |-> [b \in Peers |-> <<>>]]
  /\ heldAtDestroy = {}
  /\ last = Did("init", 0, 0, <<>>, <<>>)

\* vrpn_Mutex (name, port, NICaddress) records the port it opens.
ByPort == Port

\* Each site is built by either constructor: vrpn_Mutex (name, port, ...)
\* records its own port, vrpn_Mutex (name, vrpn_Connection *) the wrong one.
Constructions ==
  {f \in [Peers -> {WrongPort} \cup {Port[q] : q \in Peers}] :
      \A p \in Peers : f[p] \in {Port[p], WrongPort}}

\* Every instance right after construction: no peer registered yet.
Init ==
  /\ Construct
  /\ d_myPort \in Constructions
  /\ nreq = MaxRequestsFresh
  /\ d_peerData = [p \in Peers |-> <<>>]

\* The registry of p after addPeer() of every site of S other than p, in
\* ascending order.
RECURSIVE MeshFrom(_, _, _)
MeshFrom(p, S, q) ==
  IF q > MaxSites THEN <<>>
  ELSE IF q \in S /\ q # p
    THEN <<peerData(Station(q))>> \o MeshFrom(p, S, q + 1)
    ELSE MeshFrom(p, S, q + 1)

\* All sites have executed addPeer() for each other.
InitMesh ==
  /\ Construct
  /\ d_myPort = ByPort
  /\ nreq = MaxRequests
  /\ d_peerData = [p \in Peers |-> MeshFrom(p, Peers, 1)]

\* Sites 1 and 2 are each other's sole peer; site 3 has no peer.
InitPair ==
  /\ Construct
  /\ d_myPort = ByPort
  /\ nreq = MaxRequests
  /\ d_peerData = [p \in Peers |->
                     IF p \in {1, 2} THEN MeshFrom(p, {1, 2}, 1) ELSE <<>>]

\* ---------------------------------------------------------------------
\* request()

Request(p) ==
  /\ UNCHANGED d_myPort
  /\ alive[p]
  /\ IF ~isAvailable(p)
       THEN \* not requested; DeniedCallbacks are triggered instead
            /\ last' = Did("request", p, 0, <<"denied">>, <<>>)
            /\ UNCHANGED <<d_state, d_numPeersGrantingLock, d_peerData,
                           d_holder, alive, chan, nreq, heldAtDestroy>>
       ELSE /\ nreq > 0
            /\ nreq' = nreq - 1
            /\ d_peerData' = [d_peerData EXCEPT ![p] = ClearGrants(p)]
            /\ chan' = SendToPeers(chan, p, Msg("request", Identity(p)))
            /\ d_numPeersGrantingLock' =
                 [d_numPeersGrantingLock EXCEPT ![p] = 0]
            /\ IF numPeers(p) = 0
                 THEN /\ d_state' = [d_state EXCEPT ![p] = OURS]
                      /\ last' = Did("request", p, 0, <<"granted">>,
                                     SentToPeers(p, "request"))
                 ELSE /\ d_state' = [d_state EXCEPT ![p] = REQUESTING]
                      /\ last' = Did("request", p, 0, <<>>,
                                     SentToPeers(p, "request"))
            /\ UNCHANGED <<d_holder, alive, heldAtDestroy>>

\* ---------------------------------------------------------------------
\* release()

DoRelease_NoSend(p) ==
  /\ d_state' = [d_state EXCEPT ![p] = AVAILABLE]
  /\ UNCHANGED <<d_numPeersGrantingLock, d_peerData, d_holder, nreq, chan>>

\* The effect of release() on everything but alive, heldAtDestroy and last.
DoRelease(p) ==
  /\ d_state' = [d_state EXCEPT ![p] = AVAILABLE]
  /\ chan' = SendToPeers(chan, p, Msg("release", NoHolder))
  /\ UNCHANGED <<d_numPeersGrantingLock, d_peerData, d_holder, nreq>>

Release(p) ==
  /\ UNCHANGED d_myPort
  /\ alive[p]
  /\ IF isHeldLocally(p)
       THEN /\ DoRelease(p)
            /\ last' = Did("release", p, 0, <<"released">>,
                           SentToPeers(p, "release"))
       ELSE /\ last' = Did("release", p, 0, <<>>, <<>>)
            /\ UNCHANGED <<d_state, d_numPeersGrantingLock, d_peerData,
                           d_holder, chan, nreq>>
  /\ UNCHANGED <<alive, heldAtDestroy>>

\* ---------------------------------------------------------------------
\* ~vrpn_Mutex(): if isHeldLocally(), calls release().

Destroy(p) ==
  /\ UNCHANGED d_myPort
  /\ alive[p]
  /\ Cardinality({q \in Peers : ~alive[q]}) < MaxDestroys
  /\ alive' = [alive EXCEPT ![p] = FALSE]
  /\ IF isHeldLocally(p)
       THEN /\ DoRelease(p)
            /\ heldAtDestroy' = heldAtDestroy \cup {p}
            /\ last' = Did("destroy", p, 0, <<"released">>,
                           SentToPeers(p, "release"))
       ELSE /\ last' = Did("destroy", p, 0, <<>>, <<>>)
            /\ UNCHANGED <<d_state, d_numPeersGrantingLock, d_peerData,
                           d_holder, chan, nreq, heldAtDestroy>>

\* ---------------------------------------------------------------------
\* addPeer(): appends a registry entry for station q.  The call is executed
\* in whatever state the mutex is in (vrpn_Mutex.h:44-50).

\* Number of registry entries over all sites.
RECURSIVE TotalPeers(_)
TotalPeers(p) ==
  IF p > MaxSites THEN 0 ELSE Len(d_peerData[p]) + TotalPeers(p + 1)

AddPeer(p, q) ==
  /\ UNCHANGED d_myPort
  /\ alive[p]
  /\ TotalPeers(1) < MaxAddPeers
  /\ q # p
  /\ q \notin RegisteredPeers(p)
  /\ d_peerData' = [d_peerData EXCEPT
                      ![p] = Append(@, peerData(Station(q)))]
  /\ last' = Did("addPeer", p, q, <<>>, <<>>)
  /\ UNCHANGED <<d_state, d_numPeersGrantingLock, d_holder, alive, chan,
                 nreq, heldAtDestroy>>

\* ---------------------------------------------------------------------
\* Message handlers.  Each one takes the oldest unhandled message of the
\* connection from -> p (mainloop() dispatches per connection in send order).

Head1(p, from, t) ==
  /\ alive[p]
  /\ from # p
  /\ chan[from][p] # <<>>
  /\ Head(chan[from][p]).type = t

Pop(p, from) == [chan EXCEPT ![from][p] = Tail(@)]

MsgId(m) == <<m.ip, m.port>>

GrantsRequest_UnlessOurs(p, id) ==
  \/ d_state[p] \in {AVAILABLE, HELD_REMOTELY}
  \/ (d_state[p] = REQUESTING /\ IdLess(id, Identity(p)))

\* TiebreakProtocol: TRUE when a request from the site of identity id is to
\* be granted by p.
GrantsRequest(p, id) ==
  \/ d_state[p] = AVAILABLE
  \/ (d_state[p] = REQUESTING /\ IdLess(id, Identity(p)))

\* The reply goes to the requester alone.  A grant makes the requester the
\* recorded holder; granting while REQUESTING (the tie) gives up the local
\* request and triggers no callback.
handle_request(p, from) ==
  /\ UNCHANGED d_myPort
  /\ Head1(p, from, "request")
  /\ LET id == MsgId(Head(chan[from][p])) IN
       IF GrantsRequest(p, id)
         THEN /\ d_state' = [d_state EXCEPT ![p] = HELD_REMOTELY]
              /\ d_holder' = [d_holder EXCEPT ![p] = id]
              /\ d_numPeersGrantingLock' =
                   [d_numPeersGrantingLock EXCEPT ![p] = 0]
              /\ chan' = SendTo(Pop(p, from), p, from, Msg("grant", id))
              /\ last' = Did("handle_request", p, from, <<>>,
                             <<<<from, "grant">>>>)
         ELSE /\ chan' = SendTo(Pop(p, from), p, from, Msg("deny", id))
              /\ last' = Did("handle_request", p, from, <<>>,
                             <<<<from, "deny">>>>)
              /\ UNCHANGED <<d_state, d_holder, d_numPeersGrantingLock>>
  /\ UNCHANGED <<d_peerData, alive, nreq, heldAtDestroy>>

LockIsOurs_CountsSelf(p) == d_numPeersGrantingLock[p] + 2 >= numPeers(p)

\* The grant being handled is the one that makes the count reach d_numPeers.
LockIsOurs(p) == d_numPeersGrantingLock[p] + 1 = numPeers(p)

handle_grantRequest(p, from) ==
  /\ UNCHANGED d_myPort
  /\ Head1(p, from, "grant")
  /\ chan' = Pop(p, from)
  /\ IF d_state[p] = REQUESTING
        /\ MsgId(Head(chan[from][p])) = Identity(p)
       THEN /\ d_peerData' =
                 [d_peerData EXCEPT ![p] = MarkGranted(p, Station(from))]
            /\ IF LockIsOurs(p)
                 THEN /\ d_state' = [d_state EXCEPT ![p] = OURS]
                      /\ d_numPeersGrantingLock' =
                           [d_numPeersGrantingLock EXCEPT ![p] = 0]
                      /\ last' = Did("handle_grantRequest", p, from,
                                     <<"granted">>, <<>>)
                 ELSE /\ d_numPeersGrantingLock' =
                           [d_numPeersGrantingLock EXCEPT ![p] = @ + 1]
                      /\ last' = Did("handle_grantRequest", p, from,
                                     <<>>, <<>>)
                      /\ UNCHANGED d_state
       ELSE /\ last' = Did("handle_grantRequest", p, from, <<>>, <<>>)
            /\ UNCHANGED <<d_state, d_numPeersGrantingLock, d_peerData>>
  /\ UNCHANGED <<d_holder, alive, nreq, heldAtDestroy>>

\* A Deny aborts the request it answers; in any state other than REQUESTING
\* there is no request to abort and the message has no effect.
handle_denyRequest(p, from) ==
  /\ UNCHANGED d_myPort
  /\ Head1(p, from, "deny")
  /\ chan' = Pop(p, from)
  /\ IF d_state[p] = REQUESTING
        /\ MsgId(Head(chan[from][p])) = Identity(p)
       THEN /\ d_state' = [d_state EXCEPT ![p] = AVAILABLE]
            /\ d_numPeersGrantingLock' =
                 [d_numPeersGrantingLock EXCEPT ![p] = 0]
            /\ last' = Did("handle_denyRequest", p, from, <<"denied">>, <<>>)
       ELSE /\ last' = Did("handle_denyRequest", p, from, <<>>, <<>>)
            /\ UNCHANGED <<d_state, d_numPeersGrantingLock>>
  /\ UNCHANGED <<d_peerData, d_holder, alive, nreq, heldAtDestroy>>

handle_release(p, from) ==
  /\ UNCHANGED d_myPort
  /\ Head1(p, from, "release")
  /\ chan' = Pop(p, from)
  /\ IF d_state[p] = HELD_REMOTELY
       THEN /\ d_state' = [d_state EXCEPT ![p] = AVAILABLE]
            /\ d_holder' = [d_holder EXCEPT ![p] = NoHolder]
            /\ last' = Did("handle_release", p, from, <<"released">>, <<>>)
       ELSE /\ last' = Did("handle_release", p, from, <<>>, <<>>)
            /\ UNCHANGED <<d_state, d_holder>>
  /\ UNCHANGED <<d_numPeersGrantingLock, d_peerData, alive, nreq,
                 heldAtDestroy>>

\* The transport reports to p that the connection of registered peer q is
\* gone: q was destroyed and everything q had sent to p has been handled.
\* A request interrupted by the shutdown is aborted, whether or not q had
\* granted (vrpn_Mutex.h:192-195); a remote holder that is lost is taken to
\* have released; the entry of q leaves the registry.
handle_losePeer(p, q) ==
  /\ UNCHANGED d_myPort
  /\ alive[p]
  /\ ~alive[q]
  /\ q # p
  /\ q \in RegisteredPeers(p)
  /\ chan[q][p] = <<>>
  /\ d_peerData' = [d_peerData EXCEPT ![p] = RemovePeer(@, Station(q))]
  /\ IF d_state[p] = REQUESTING
       THEN /\ d_state' = [d_state EXCEPT ![p] = AVAILABLE]
            /\ d_numPeersGrantingLock' =
                 [d_numPeersGrantingLock EXCEPT ![p] = 0]
            /\ last' = Did("handle_losePeer", p, q, <<"denied">>, <<>>)
            /\ UNCHANGED d_holder
       ELSE IF d_state[p] = HELD_REMOTELY /\ d_holder[p] = Identity(q)
         THEN /\ d_state' = [d_state EXCEPT ![p] = AVAILABLE]
              /\ d_holder' = [d_holder EXCEPT ![p] = NoHolder]
              /\ last' = Did("handle_losePeer", p, q, <<>>, <<>>)
              /\ UNCHANGED d_numPeersGrantingLock
         ELSE /\ last' = Did("handle_losePeer", p, q, <<>>, <<>>)
              /\ UNCHANGED <<d_state, d_holder, d_numPeersGrantingLock>>
  /\ UNCHANGED <<alive, chan, nreq, heldAtDestroy>>

\* The oldest message of the connection from -> p goes to its handler.
dispatch(p, from) ==
  \/ handle_request(p, from)
  \/ handle_grantRequest(p, from)
  \/ handle_denyRequest(p, from)
  \/ handle_release(p, from)

\* mainloop(): one message of one connection, or the loss of that
\* connection, is dispatched to its handler.
mainloop(p, from) ==
  \/ dispatch(p, from)
  \/ handle_losePeer(p, from)

\* ---------------------------------------------------------------------
\* Specifications

\* request(), release() and message handling.
NextProtocol ==
  \/ \E p \in Peers : Request(p)
  \/ \E p \in Peers : Release(p)
  \/ \E p \in Peers : \E from \in Peers : handle_request(p, from)
  \/ \E p \in Peers : \E from \in Peers : handle_grantRequest(p, from)
  \/ \E p \in Peers : \E from \in Peers : handle_denyRequest(p, from)
  \/ \E p \in Peers : \E from \in Peers : handle_release(p, from)

\* Every operation, from freshly constructed instances.
Next ==
  \/ NextProtocol
  \/ \E p \in Peers : \E q \in Peers : AddPeer(p, q)
  \/ \E p \in Peers : Destroy(p)
  \/ \E p \in Peers : \E q \in Peers : handle_losePeer(p, q)

Spec == Init /\ [][Next]_vars

\* Freshly constructed instances register peers and run the protocol; no
\* instance is destroyed.
NextFresh ==
  \/ NextProtocol
  \/ \E p \in Peers : \E q \in Peers : AddPeer(p, q)

SpecFresh == Init /\ [][NextFresh]_vars

\* All sites mutually registered, no site added or destroyed afterwards.
SpecMesh == InitMesh /\ [][NextProtocol]_vars

\* mainloop() is called frequently: a pending message is eventually handled.
Fairness ==
  \A p \in Peers : \A from \in Peers \ {p} : WF_vars(dispatch(p, from))

FairMesh == SpecMesh /\ Fairness

\* Sites 1 and 2 are each other's sole peer.
SpecPair == InitPair /\ [][NextProtocol]_vars

FairPair == SpecPair /\ Fairness

\* Mutually registered sites, any of which may be destroyed; a destroyed
\* site is reported lost to its peers.
NextTeardown ==
  \/ NextProtocol
  \/ \E p \in Peers : Destroy(p)
  \/ \E p \in Peers : \E q \in Peers : handle_losePeer(p, q)

SpecTeardown == InitMesh /\ [][NextTeardown]_vars

\* Mutually registered sites, with a smaller budget of request cycles.
InitLoss ==
  /\ Construct
  /\ d_myPort = ByPort
  /\ nreq = MaxRequestsLoss
  /\ d_peerData = [p \in Peers |-> MeshFrom(p, Peers, 1)]

SpecLoss == InitLoss /\ [][NextTeardown]_vars

\* Mutually registered sites with the smaller budget, none destroyed.
SpecShort == InitLoss /\ [][NextProtocol]_vars

FairShort == SpecShort /\ Fairness

\* ---------------------------------------------------------------------
\* C1 - Mutual exclusion: with all sites mutually registered and no site
\* lost, no two different sites hold the lock locally at the same time.
C1_MutualExclusion ==
  \A p \in Peers : \A q \in Peers :
     (p # q /\ isHeldLocally(p)) => ~isHeldLocally(q)

\* Site p holds the lock while a request of site q that collided with p's
\* is being denied.
C1_Witness ==
  \E p \in Peers : \E q \in Peers :
     /\ p # q
     /\ isHeldLocally(p)
     /\ chan[p][q] # <<>>
     /\ Head(chan[p][q]).type = "deny"
     /\ \A r \in Peers \ {p} : isHeldRemotely(r) /\ d_holder[r] = Identity(p)

\* ---------------------------------------------------------------------
\* The callbacks that the handling of a message triggered at site p.
Resolved(p) ==
  /\ last.peer = p
  /\ last.op \in {"handle_grantRequest", "handle_denyRequest"}
  /\ last.fired \in {<<"granted">>, <<"denied">>}

\* request() of site p has just started a request cycle.
Requested(p) ==
  /\ last.op = "request"
  /\ last.peer = p
  /\ d_state[p] = REQUESTING

\* C2 - Every request resolves through a callback: after request() made
\* while available, under fair message handling, the granted or the denied
\* callbacks of the requester are eventually triggered for that request.
C2_RequestResolves ==
  \A p \in Peers : Requested(p) ~> Resolved(p)

\* ---------------------------------------------------------------------
\* Sites 1 and 2, of which site 1 has the lower identity, have both called
\* request() and neither Request message has been handled yet.
Collision ==
  /\ d_myIP[1] = d_myIP[2] /\ d_myPort[1] < d_myPort[2]
  /\ d_state[1] = REQUESTING
  /\ d_state[2] = REQUESTING
  /\ Len(chan[1][2]) = 1 /\ Head(chan[1][2]).type = "request"
  /\ Len(chan[2][1]) = 1 /\ Head(chan[2][1]).type = "request"

\* C3 - Tiebreak determinism for two sites that are each other's sole peer,
\* Identity(1) < Identity(2): after a collision site 1 eventually holds the
\* lock with its granted callbacks fired, site 2 does not get to hold the
\* lock unless a new request cycle is started, and the denied callbacks of
\* site 2 fire.
C3_Tiebreak ==
  /\ Collision ~> (isHeldLocally(1) /\ last.peer = 1
                      /\ last.fired = <<"granted">>)
  /\ \A n \in 0 .. MaxRequests :
        [](Collision /\ nreq = n => [](isHeldLocally(2) => nreq < n))
  /\ Collision ~> (last.peer = 2 /\ last.op = "handle_denyRequest"
                      /\ last.fired = <<"denied">>)

\* ---------------------------------------------------------------------
\* release() of site p, called while p held the lock, is the step being taken.
ReleaseStep(p) ==
  /\ isHeldLocally(p)
  /\ last'.op = "release"
  /\ last'.peer = p

\* C4 - Release reaches every peer: release() by the holder sends a Release
\* message to every registered peer, makes the holder available and fires
\* its released callbacks; under fair message handling every other site
\* eventually fires its released callbacks and is available again.
C4_ReleaseReachesPeers ==
  /\ [][\A p \in Peers :
          ReleaseStep(p) =>
            /\ isAvailable(p)'
            /\ last'.fired = <<"released">>
            /\ \A q \in Peers :
                 chan'[p][q] =
                   IF q \in RegisteredPeers(p)
                     THEN Append(chan[p][q], Msg("release", NoHolder))
                     ELSE chan[p][q]]_vars
  /\ \A p \in Peers : \A q \in Peers \ {p} :
        (last.op = "release" /\ last.peer = p /\ last.fired = <<"released">>)
          ~> (/\ last.op = "handle_release"
              /\ last.peer = q
              /\ last.from = p
              /\ last.fired = <<"released">>
              /\ isAvailable(q))

\* The last site has just handled the Release of a holder: every site is
\* available again and nothing is in flight.
C4_Witness ==
  /\ last.op = "handle_release"
  /\ last.fired = <<"released">>
  /\ \A q \in Peers : isAvailable(q)
  /\ \A a \in Peers : \A b \in Peers : chan[a][b] = <<>>
  /\ nreq = MaxRequestsLoss - 1

\* ---------------------------------------------------------------------
\* Operation op of site p is the step being taken.
Calls(op, p) == last'.op = op /\ last'.peer = p

\* C5 - Re-entrant request rejection: request() while requesting, holding or
\* held remotely triggers the denied callbacks within the call, sends no
\* message and leaves the state, the grant count and the per-peer grant
\* flags unchanged.
C5_ReentrantRequest ==
  [][\A p \in Peers :
       (d_state[p] \in {REQUESTING, OURS, HELD_REMOTELY}
          /\ Calls("request", p)) =>
         /\ last'.fired = <<"denied">>
         /\ last'.sent = <<>>
         /\ chan' = chan
         /\ d_state' = d_state
         /\ d_numPeersGrantingLock' = d_numPeersGrantingLock
         /\ d_peerData' = d_peerData]_vars

\* request() was just denied at a site that is requesting and has already
\* received a grant from one of its two peers.
C5_Witness ==
  /\ last.op = "request"
  /\ last.fired = <<"denied">>
  /\ d_state[last.peer] = REQUESTING
  /\ d_numPeersGrantingLock[last.peer] = 1
  /\ \E i \in 1 .. Len(d_peerData[last.peer]) :
        d_peerData[last.peer][i].grantedLock

\* ---------------------------------------------------------------------
\* C6 - Idempotent release: release() in any state other than held locally
\* changes no state, sends no message and fires no callback; a pending
\* request is not cancelled.
C6_IdempotentRelease ==
  [][\A p \in Peers :
       (d_state[p] \in {AVAILABLE, REQUESTING, HELD_REMOTELY}
          /\ Calls("release", p)) =>
         /\ last'.fired = <<>>
         /\ last'.sent = <<>>
         /\ chan' = chan
         /\ d_state' = d_state
         /\ d_holder' = d_holder
         /\ d_numPeersGrantingLock' = d_numPeersGrantingLock
         /\ d_peerData' = d_peerData]_vars

\* release() was just called at a site whose request is still pending.
C6_Witness ==
  /\ last.op = "release"
  /\ last.fired = <<>>
  /\ d_state[last.peer] = REQUESTING
  /\ \E q \in Peers :
       /\ chan[last.peer][q] # <<>>
       /\ Head(chan[last.peer][q]).type = "request"

\* ---------------------------------------------------------------------
\* C7 - Zero-peer grant: request() of an available instance without peers
\* leaves it holding the lock, with its granted callbacks fired once and no
\* message sent.
C7_ZeroPeerGrant ==
  [][\A p \in Peers :
       (Len(d_peerData[p]) = 0 /\ d_state[p] = AVAILABLE
          /\ Calls("request", p)) =>
         /\ d_state'[p] = OURS
         /\ last'.fired = <<"granted">>
         /\ last'.sent = <<>>
         /\ chan' = chan]_vars

\* An instance without peers holds the lock right after request().
C7_Witness ==
  /\ last.op = "request"
  /\ Len(d_peerData[last.peer]) = 0
  /\ d_state[last.peer] = OURS
  /\ last.fired = <<"granted">>

\* ---------------------------------------------------------------------
\* How many of the three accessors are true at site p.
AccessorsTrue(p) ==
  Cardinality({i \in 1 .. 3 :
                 \/ (i = 1 /\ isAvailable(p))
                 \/ (i = 2 /\ isHeldLocally(p))
                 \/ (i = 3 /\ isHeldRemotely(p))})

\* C8 - State accessors: at most one of isAvailable(), isHeldLocally(),
\* isHeldRemotely() is true; exactly one when the state is not requesting;
\* and all three are false from request() until the granted or denied
\* callbacks of that request are triggered.
C8_StateAccessors ==
  /\ [](\A p \in Peers :
          /\ AccessorsTrue(p) <= 1
          /\ (d_state[p] # REQUESTING => AccessorsTrue(p) = 1)
          /\ (d_state[p] = REQUESTING => AccessorsTrue(p) = 0))
  /\ [][\A p \in Peers :
          (d_state[p] = REQUESTING /\ AccessorsTrue(p)' > 0) =>
            /\ last'.peer = p
            /\ last'.fired \in {<<"granted">>, <<"denied">>}]_vars

\* ---------------------------------------------------------------------
\* C9 - addPeer outside available is rejected with a reportable error and
\* leaves the registry, numPeers, the state and the grant count unchanged;
\* numPeers never changes during an in-flight request or a hold.
C9_AddPeerRejected ==
  /\ [][\A p \in Peers :
          (d_state[p] \in {REQUESTING, OURS, HELD_REMOTELY}
             /\ Calls("addPeer", p)) =>
            /\ last'.err
            /\ d_peerData' = d_peerData
            /\ d_state' = d_state
            /\ d_numPeersGrantingLock' = d_numPeersGrantingLock]_vars
  /\ [][\A p \in Peers :
          d_state[p] \in {REQUESTING, OURS, HELD_REMOTELY} =>
            Len(d_peerData'[p]) = Len(d_peerData[p])]_vars

\* ---------------------------------------------------------------------
\* Site p is being destroyed in this step.
Destroyed(p) == alive[p] /\ ~alive'[p]

\* C10 - Release on teardown: an instance destroyed while holding the lock
\* first releases, so a Release goes to every registered peer and, once the
\* messages of the destroyed instance are handled, no live site is held
\* remotely by it; an instance destroyed in another state sends no Release.
C10_ReleaseOnTeardown ==
  /\ [][\A p \in Peers :
          Destroyed(p) =>
            IF d_state[p] = OURS
              THEN /\ last'.fired = <<"released">>
                   /\ \A q \in Peers :
                        chan'[p][q] =
                          IF q \in RegisteredPeers(p)
                            THEN Append(chan[p][q], Msg("release", NoHolder))
                            ELSE chan[p][q]
              ELSE /\ chan' = chan
                   /\ last'.sent = <<>>]_vars
  /\ [](\A p \in heldAtDestroy :
          (\A q \in Peers : alive[q] => chan[p][q] = <<>>) =>
            \A q \in Peers :
               alive[q] => ~(d_state[q] = HELD_REMOTELY
                               /\ d_holder[q] = Identity(p)))

\* The Release of an instance destroyed while it held the lock has just
\* been handled by the last live site that was held remotely by it.
C10_Witness ==
  \E p \in heldAtDestroy :
     /\ last.op = "handle_release"
     /\ last.from = p
     /\ last.fired = <<"released">>
     /\ \A q \in Peers \ {p} : alive[q] /\ chan[p][q] = <<>>
     /\ \A q \in Peers \ {p} : d_state[q] = AVAILABLE

\* ---------------------------------------------------------------------
\* C11 - Grant accounting: a site comes to hold the lock only from
\* REQUESTING, at the step where an inbound Grant makes the grant count
\* equal numPeers (or at request() when it has no peers); the granted
\* callbacks fire exactly once at that step, and at no other step.
C11_GrantAccounting ==
  /\ [][\A p \in Peers :
          (d_state[p] # OURS /\ d_state'[p] = OURS) =>
            /\ last'.peer = p
            /\ last'.fired = <<"granted">>
            /\ \/ /\ d_state[p] = REQUESTING
                  /\ last'.op = "handle_grantRequest"
                  /\ d_numPeersGrantingLock[p] + 1 = Len(d_peerData[p])
               \/ /\ d_state[p] = AVAILABLE
                  /\ last'.op = "request"
                  /\ Len(d_peerData[p]) = 0]_vars
  /\ [][\A p \in Peers :
          (last'.peer = p
             /\ \E i \in 1 .. Len(last'.fired) : last'.fired[i] = "granted")
            => (d_state[p] # OURS /\ d_state'[p] = OURS
                  /\ last'.fired = <<"granted">>)]_vars

\* A site with two peers has just received the second grant.
C11_Witness ==
  /\ last.op = "handle_grantRequest"
  /\ last.fired = <<"granted">>
  /\ d_state[last.peer] = OURS
  /\ Len(d_peerData[last.peer]) = 2

\* ---------------------------------------------------------------------
\* The Request that p sent to q for its current cycle is still unhandled.
RequestPending(p, q) ==
  \E i \in 1 .. Len(chan[p][q]) : chan[p][q][i].type = "request"

\* C12 - Deny aborts the request: a Deny handled while REQUESTING, whatever
\* the grant count, makes the site available and fires its denied
\* callbacks; a Grant issued for an aborted request is never counted, also
\* not after the site has started a new request (so a Grant from q is
\* counted only once q has handled the Request of the current cycle).
C12_DenyAborts ==
  /\ [][\A p \in Peers :
          (d_state[p] = REQUESTING /\ Calls("handle_denyRequest", p)) =>
            /\ d_state'[p] = AVAILABLE
            /\ last'.fired = <<"denied">>]_vars
  /\ [][\A p \in Peers : \A q \in Peers :
          (/\ d_state[p] = REQUESTING
           /\ Calls("handle_grantRequest", p)
           /\ last'.from = q
           /\ RequestPending(p, q))
            => /\ d_numPeersGrantingLock'[p] = d_numPeersGrantingLock[p]
               /\ d_state'[p] = REQUESTING]_vars

\* ---------------------------------------------------------------------
\* The step appends exactly message m to the connection p -> r and leaves
\* every other connection of p as it was.
RepliesOnly(p, r, m) ==
  \A q \in Peers :
     chan'[p][q] = IF q = r THEN Append(chan[p][q], m) ELSE chan[p][q]

\* C13 - Request handling outside the tie: a Request from r handled while
\* available sends a Grant to r and leaves the receiver held remotely with
\* holder r; handled while held locally or remotely it sends a Deny to r
\* and leaves the receiver's state and holder unchanged.
C13_RequestHandling ==
  [][\A p \in Peers : \A r \in Peers :
       (Calls("handle_request", p) /\ last'.from = r) =>
         /\ d_state[p] = AVAILABLE =>
              /\ RepliesOnly(p, r, Msg("grant", Identity(r)))
              /\ d_state'[p] = HELD_REMOTELY
              /\ d_holder'[p] = Identity(r)
         /\ d_state[p] \in {OURS, HELD_REMOTELY} =>
              /\ RepliesOnly(p, r, Msg("deny", Identity(r)))
              /\ d_state'[p] = d_state[p]
              /\ d_holder'[p] = d_holder[p]]_vars

\* A site held remotely by one peer has just denied the request of another.
C13_Witness ==
  /\ last.op = "handle_request"
  /\ last.sent = <<<<last.from, "deny">>>>
  /\ d_state[last.peer] = HELD_REMOTELY
  /\ d_holder[last.peer] # Identity(last.from)
  /\ \E q \in Peers : d_state[q] = OURS

\* ---------------------------------------------------------------------
\* Site p, REQUESTING, leaves that state in this step by the Grant that
\* completes the quorum, by a Deny, or by the loss of a peer that has not
\* granted.
EndsByReply(p) ==
  /\ last'.peer = p
  /\ \/ /\ last'.op = "handle_grantRequest"
        /\ d_numPeersGrantingLock[p] + 1 = Len(d_peerData[p])
        /\ d_state'[p] = OURS
     \/ /\ last'.op = "handle_denyRequest"
        /\ d_state'[p] = AVAILABLE
     \/ /\ last'.op = "handle_losePeer"
        /\ \E i \in 1 .. Len(d_peerData[p]) :
              /\ d_peerData[p][i].IPaddress = d_myIP[last'.from]
              /\ d_peerData[p][i].port = Port[last'.from]
              /\ ~d_peerData[p][i].grantedLock
        /\ d_state'[p] = AVAILABLE

\* C14 - a pending request resolves only by grant, deny or peer
\* loss: no other step, an inbound Request handled by the tiebreak
\* included, takes a site out of REQUESTING.
C14_ResolvesOnlyByReply ==
  [][\A p \in Peers :
       (d_state[p] = REQUESTING /\ d_state'[p] # REQUESTING)
         => EndsByReply(p)]_vars

\* ---------------------------------------------------------------------
\* The registry of p records a grant of site q in the current cycle.
GrantRecorded(p, q) ==
  \E i \in 1 .. Len(d_peerData[p]) :
     /\ d_peerData[p][i].IPaddress = d_myIP[q]
     /\ d_peerData[p][i].port = Port[q]
     /\ d_peerData[p][i].grantedLock

\* C15 - Peer loss during a request: the loss of peer q reported while
\* REQUESTING aborts the request (available, denied callbacks fired, grants
\* received so far discarded) when q has not granted in this cycle, and
\* changes neither state, grant count, holder nor channels and fires no
\* callback when q has already granted.
C15_PeerLossDuringRequest ==
  [][\A p \in Peers : \A q \in Peers :
       (d_state[p] = REQUESTING /\ Calls("handle_losePeer", p)
          /\ last'.from = q) =>
         IF GrantRecorded(p, q)
           THEN /\ last'.fired = <<>>
                /\ d_state' = d_state
                /\ d_numPeersGrantingLock' = d_numPeersGrantingLock
                /\ d_holder' = d_holder
                /\ chan' = chan
           ELSE /\ last'.fired = <<"denied">>
                /\ d_state'[p] = AVAILABLE
                /\ d_numPeersGrantingLock'[p] = 0]_vars

\* ---------------------------------------------------------------------
\* The sites of R have all called request() and no message has been handled
\* yet: their Requests are the only messages in flight.
Simultaneous(R) ==
  /\ \A p \in R : d_state[p] = REQUESTING
  /\ \A p \in Peers \ R : d_state[p] = AVAILABLE
  /\ \A p \in Peers : \A q \in Peers \ {p} :
        chan[p][q] = IF p \in R THEN <<Msg("request", Identity(p))>>
                     ELSE <<>>

\* Site p has the lowest identity of the sites of R.
Lowest(R, p) ==
  /\ p \in R
  /\ \A q \in R \ {p} :
        \/ d_myIP[p] < d_myIP[q]
        \/ (d_myIP[p] = d_myIP[q] /\ d_myPort[p] < d_myPort[q])

\* C16 - Lowest identity wins among simultaneous requesters: when several
\* mutually registered sites have called request() before any message is
\* handled, then under fair message handling the requester of lowest
\* identity eventually holds the lock.
C16_LowestWins ==
  \A R \in SUBSET Peers : \A p \in Peers :
     Cardinality(R) >= 2 =>
        ((Simultaneous(R) /\ Lowest(R, p)) ~> (d_state[p] = OURS))

\* ---------------------------------------------------------------------
\* The number of registry entries of p whose grantedLock is set.
GrantsRecorded(p) ==
  Cardinality({i \in 1 .. Len(d_peerData[p]) : d_peerData[p][i].grantedLock})

\* The Grant that p handles in this step is counted towards the quorum.
CountsGrant(p) ==
  /\ d_state[p] = REQUESTING
  /\ Calls("handle_grantRequest", p)
  /\ \/ d_state'[p] = OURS
     \/ d_numPeersGrantingLock'[p] = d_numPeersGrantingLock[p] + 1

\* C17 - Per-cycle grant bookkeeping: request() enters REQUESTING with a
\* count of 0 and every grantedLock false; while REQUESTING the count equals
\* the number of entries whose grantedLock is set and lies in 0 .. numPeers;
\* and a Grant is counted only for a peer not yet counted in the cycle.
C17_GrantBookkeeping ==
  /\ [](\A p \in Peers :
          d_state[p] = REQUESTING =>
             /\ d_numPeersGrantingLock[p] = GrantsRecorded(p)
             /\ d_numPeersGrantingLock[p] \in 0 .. Len(d_peerData[p]))
  /\ [][\A p \in Peers :
          /\ (Calls("request", p) /\ d_state[p] # REQUESTING
                 /\ d_state'[p] = REQUESTING) =>
                d_numPeersGrantingLock'[p] = 0 /\ GrantsRecorded(p)' = 0
          /\ CountsGrant(p) => ~GrantRecorded(p, last'.from)]_vars

\* After two request() calls in the run, site 1 is REQUESTING and has just
\* counted the Grant of one of its two peers.
C17_Witness ==
  /\ last.op = "handle_grantRequest"
  /\ last.peer = 1
  /\ d_state[1] = REQUESTING
  /\ d_numPeersGrantingLock[1] = 1
  /\ GrantsRecorded(1) = 1
  /\ Len(d_peerData[1]) = 2
  /\ nreq <= MaxRequests - 2

\* ---------------------------------------------------------------------
\* C18 - Holder agreement: among mutually registered sites with no peer
\* loss, while site x holds the lock every other site is HELD_REMOTELY with
\* x as its holder.
C18_HolderAgreement ==
  \A x \in Peers :
     d_state[x] = OURS =>
        \A q \in Peers \ {x} :
           /\ d_state[q] = HELD_REMOTELY
           /\ d_holder[q] = <<d_myIP[x], d_myPort[x]>>

\* Site 2 has just acquired the lock.
C18_Witness ==
  /\ last.op = "handle_grantRequest"
  /\ last.peer = 2
  /\ last.fired = <<"granted">>
  /\ d_state = <<HELD_REMOTELY, OURS, HELD_REMOTELY>>
  /\ d_holder[1] = <<10, 3>>
  /\ d_holder[3] = <<10, 3>>

\* ---------------------------------------------------------------------
\* No message is in flight on any connection.
Quiescent ==
  \A p \in Peers : \A q \in Peers : chan[p][q] = <<>>

\* C19 - No stranded HELD_REMOTELY: among mutually registered sites with no
\* peer loss, in every state where no message is in flight, a site that is
\* HELD_REMOTELY with holder h implies that the site of identity h holds the
\* lock.
C19_NoStrandedHeldRemotely ==
  Quiescent =>
     \A q \in Peers :
        d_state[q] = HELD_REMOTELY =>
           \E h \in Peers :
              /\ d_holder[q] = <<d_myIP[h], d_myPort[h]>>
              /\ d_state[h] = OURS

\* ---------------------------------------------------------------------
\* Site b has an entry in the registry of site p.
Registered(p, b) ==
  \E i \in 1 .. Len(d_peerData[p]) :
     /\ d_peerData[p][i].IPaddress = d_myIP[b]
     /\ d_peerData[p][i].port = Port[b]

\* The step appended exactly the message m to the connection a -> b.
SentOne(a, b, m) == chan'[a][b] = Append(chan[a][b], m)

\* C20 - Every Request is answered exactly once: request() made while
\* available with at least one peer puts exactly one Request on the
\* connection to each registered peer and nothing elsewhere; a site that
\* handles a Request, in any of its four states, puts exactly one reply on
\* the connection to the requester, a Grant or a Deny naming the requester,
\* and nothing elsewhere.
C20_AnsweredOnce ==
  [][\A p \in Peers :
       /\ (Calls("request", p) /\ d_state[p] = AVAILABLE
             /\ Len(d_peerData[p]) > 0) =>
            \A a \in Peers : \A b \in Peers :
               IF a = p /\ Registered(p, b)
                 THEN SentOne(a, b, [type |-> "request", ip |-> d_myIP[p],
                                     port |-> d_myPort[p]])
                 ELSE chan'[a][b] = chan[a][b]
       /\ \A r \in Peers :
            (Calls("handle_request", p) /\ last'.from = r) =>
               /\ d_state[p] \in {AVAILABLE, REQUESTING, OURS, HELD_REMOTELY}
               /\ \/ SentOne(p, r, [type |-> "grant", ip |-> d_myIP[r],
                                    port |-> d_myPort[r]])
                  \/ SentOne(p, r, [type |-> "deny", ip |-> d_myIP[r],
                                    port |-> d_myPort[r]])
               /\ chan'[r][p] = Tail(chan[r][p])
               /\ \A a \in Peers : \A b \in Peers :
                     <<a, b>> \notin {<<p, r>>, <<r, p>>} =>
                        chan'[a][b] = chan[a][b]]_vars

\* A site that holds the lock has just answered a Request with a single Deny
\* naming the requester, the only message on that connection.
C20_Witness ==
  /\ last.op = "handle_request"
  /\ d_state[last.peer] = OURS
  /\ chan[last.peer][last.from] =
        <<[type |-> "deny", ip |-> d_myIP[last.from],
           port |-> d_myPort[last.from]]>>
  /\ chan[last.from][last.peer] = <<>>

====
